---- MODULE Spec2Model ----
(***************************************************************************)
(* A model of the UfoAjax client engine, src/lib/ufo.js: the connection    *)
(* registry, the per-connection request/poll state machine, the reply      *)
(* decoder and instruction dispatcher, the callback registry, the DOM      *)
(* patch handlers and the data store.                                      *)
(*                                                                         *)
(* JavaScript runs every handler to completion, so every action below is   *)
(* one whole handler: an application call into the exported interface, a   *)
(* timer firing, or a request completing.  A handler is written as a       *)
(* function from a state record to a state record (the operators that take *)
(* and return "s"), composed in the order of the statements of the source. *)
(* The field s.thrown records an uncaught exception: every later statement *)
(* of the handler is skipped, what was done before it stays done.          *)
(***************************************************************************)
EXTENDS Integers, Sequences, FiniteSets, TLC

(***************************************************************************)
(* Values.                                                                 *)
(***************************************************************************)
\* JavaScript's undefined, where a string is expected.  As an object key it
\* is the string "undefined" (connections[undefined] is connections["undefined"]).
Undefined == "undefined"

\* The connection id the application and the server use.  A call without an
\* id (stop's abort(), an instruction with no id) resolves to the id
\* "undefined", which so names a connection too.
Ids == {"a"}

\* Urls handed to get/post: a usable one, and none (falsy).
Urls == {"u", Undefined}

\* Names in the callback function table and the functions bound to them.
FuncNames == {"f", "g"}
Impls == {"F1", "F2"}

\* The callback points the engine fires.
Points == {"get", "update", "reply", "post", "abort", "inner", "forbidden"}

\* The ids of the elements of the document.
Targets == {"t"}

\* The separator byte 0x02 of the wire format.
STX == "\\x02"

\* Bounds of the model.
MaxBindings == 2
MaxDetached == 1
MaxTimeouts == 2
MaxBatch == 3
MaxBody == 4
MaxListeners == 3

(***************************************************************************)
(* An argument list is a JavaScript array or undefined.                    *)
(***************************************************************************)
Arr(items) == [arr |-> TRUE, items |-> items]
NoArgs == [arr |-> FALSE, items |-> <<>>]

\* Array.prototype.concat(x): an array argument is spread, any other value
\* (undefined included) is appended as one element.
concat(a, x) == IF x.arr THEN a \o x.items ELSE Append(a, Undefined)

\* Function.prototype.apply(null, args): undefined is an empty argument list.
apply_args(args) == IF args.arr THEN args.items ELSE <<>>

\* An object with no properties, and obj[key] = value.
EmptyMap == [k \in {} |-> Undefined]
Put(f, key, value) == [k \in DOMAIN f \cup {key} |-> IF k = key THEN value ELSE f[k]]
Remove(f, key) == [k \in DOMAIN f \ {key} |-> f[k]]

(***************************************************************************)
(* State.                                                                  *)
(***************************************************************************)
VARIABLES
    connections,         \* id -> Connection, for the ids that have one (ufo.js:57)
    detached,            \* requests still outstanding on the XMLHttpRequest of a deleted Connection
    timeouts,            \* pending setTimeout callbacks
    callback_functions,  \* name -> function, for the registered names (ufo.js:279)
    data,                \* the data store's map (ufo.js:341)
    data_callbacks,      \* the data store's listeners: key -> sequence (ufo.js:342)
    data_ln,             \* the data store's localization map (ufo.js:343)
    dom,                 \* the document: element id -> element
    events               \* what the last handler did, in order (observation only)

vars == <<connections, detached, timeouts, callback_functions, data, data_callbacks, data_ln, dom, events>>

\* An XMLHttpRequest with no request outstanding, and one with a request sent.
\* by is observation only: the operation that sent the request.
Idle == [busy |-> FALSE, method |-> "", url |-> "", form |-> "", by |-> ""]
Sent(method, url, form, by) ==
    [busy |-> TRUE, method |-> method, url |-> url, form |-> form, by |-> by]

\* new Connection(id): no url, no interval, no timer (0), an empty callback map.
\* A callback list that is not an array is the empty sequence.
Connection ==
    [url |-> Undefined, interval |-> 0, timer |-> 0,
     callback |-> [p \in Points |-> <<>>], http |-> Idle]

\* A binding {func, args}, and the hole `delete array[i]` leaves behind.
Binding(func, args) == [func |-> func, args |-> args, hole |-> FALSE]
Hole == [func |-> Undefined, args |-> NoArgs, hole |-> TRUE]

\* An observed event of a handler.  seen is the data store as it is when a
\* tailcall runs (what data.get would return to the function called).
Ev(t, id, x, args) == [t |-> t, id |-> id, x |-> x, args |-> args, seen |-> EmptyMap]

State ==
    [connections |-> connections, detached |-> detached, timeouts |-> timeouts,
     callback_functions |-> callback_functions, data |-> data,
     data_callbacks |-> data_callbacks, data_ln |-> data_ln, dom |-> dom,
     events |-> <<>>, thrown |-> FALSE, tailcalls |-> <<>>]

Commit(s) ==
    /\ connections' = s.connections
    /\ detached' = s.detached
    /\ timeouts' = s.timeouts
    /\ callback_functions' = s.callback_functions
    /\ data' = s.data
    /\ data_callbacks' = s.data_callbacks
    /\ data_ln' = s.data_ln
    /\ dom' = s.dom
    /\ events' = s.events

Emit(s, e) == [s EXCEPT !.events = Append(@, e)]

\* An uncaught exception: the rest of the handler does not run.
Throw(s, what) == [Emit(s, Ev("throw", "", what, <<>>)) EXCEPT !.thrown = TRUE]

\* console.log and alert.
log(s, what) == Emit(s, Ev("log", "", what, <<>>))
alert(s, what) == Emit(s, Ev("alert", "", what, <<>>))

Exists(s, id) == id \in DOMAIN s.connections

\* A document element: its content, its style.display and its attributes/properties.
Element(html) == [innerHTML |-> html, display |-> "", attr |-> EmptyMap]

(***************************************************************************)
(* Callback registry: invocation (ufo.js:261-276, 310-313).                *)
(***************************************************************************)
\* callback_call(func_name, args): calls the function now registered under the
\* name, if there is one.  The call is observed as a "call" event carrying the
\* function and the argument list it receives; what the function does is not
\* modelled.
callback_call(s, func_name, args) ==
    IF s.thrown THEN s
    ELSE IF func_name \in DOMAIN s.callback_functions
         THEN Emit(s, Ev("call", s.callback_functions[func_name], func_name, apply_args(args)))
         ELSE s

\* The loop of callback(): callbacks[i].args on a hole is a TypeError.
RECURSIVE callback_loop(_, _, _, _)
callback_loop(s, callbacks, additional_args, i) ==
    IF s.thrown \/ i > Len(callbacks) THEN s
    ELSE IF callbacks[i].hole THEN Throw(s, "TypeError")
    ELSE LET args == IF callbacks[i].args.arr
                     THEN Arr(concat(callbacks[i].args.items, additional_args))
                     ELSE additional_args
         IN callback_loop(callback_call(s, callbacks[i].func, args),
                          callbacks, additional_args, i + 1)

\* callback(id, point, additional_args): fires a callback point.  The firing is
\* observed as a "point" event, whether or not the connection exists.
callback(s, id, point, additional_args) ==
    IF s.thrown THEN s
    ELSE LET s1 == Emit(s, Ev("point", id, point, apply_args(additional_args)))
         IN IF ~Exists(s1, id) THEN s1
            ELSE callback_loop(s1, s1.connections[id].callback[point], additional_args, 1)

(***************************************************************************)
(* Connection (ufo.js:18-52) and the registry (ufo.js:57-61).              *)
(***************************************************************************)
\* A url is usable when it is truthy.
Truthy(url) == url # Undefined /\ url # ""

\* init(id, dont_create)
init(s, id, dont_create) ==
    IF ~Exists(s, id) /\ ~dont_create
    THEN [s EXCEPT !.connections = Put(@, id, Connection)]
    ELSE s

\* Connection.prototype.get / post: open() and send() on the connection's one
\* XMLHttpRequest; open() drops a request that is still outstanding on it.
Connection_send(s, id, method, form, by) ==
    IF s.thrown THEN s
    ELSE IF Truthy(s.connections[id].url)
         THEN LET req == Sent(method, s.connections[id].url, form, by)
              IN Emit([s EXCEPT !.connections[id].http = req],
                      Ev("send", id, method, <<s.connections[id].url, form, by>>))
         ELSE s

Connection_get(s, id, by) == Connection_send(s, id, "GET", Undefined, by)

Connection_post(s, id, data_, by) == Connection_send(s, id, "POST", data_, by)

\* Connection.prototype.abort: XMLHttpRequest.abort() ends an outstanding
\* request with readyState 4 and status 0, which the readystatechange handler
\* of ufo.js:22-31 ignores (0 is not 200 and not in status_callback_points).
Connection_abort(s, id) ==
    IF s.thrown THEN s
    ELSE IF s.connections[id].http.busy
         THEN Emit([s EXCEPT !.connections[id].http = Idle], Ev("aborted", id, "0", <<>>))
         ELSE s

(***************************************************************************)
(* Timers.                                                                 *)
(***************************************************************************)
\* A pending timeout: setTimeout(update, timeout, id) (kind "update") or the
\* retry of reply_output (kind "retry").  Handles are positive; the handle of a
\* new timeout is one that no pending timeout and no connection refers to.
Timeout(h, kind, id, target, content) ==
    [h |-> h, kind |-> kind, id |-> id, target |-> target, content |-> content]

UsedHandles(s) ==
    {t.h : t \in s.timeouts} \cup {s.connections[id].timer : id \in DOMAIN s.connections}

FreshHandle(s) ==
    CHOOSE h \in 1..(Cardinality(UsedHandles(s)) + 1) :
        /\ h \notin UsedHandles(s)
        /\ \A k \in 1..(h - 1) : k \in UsedHandles(s)

\* clearTimeout(h): the cancelling of a timeout that was pending is observed
\* as a "cleared" event; on any other handle the call does nothing.
clearTimeout(s, h) ==
    IF \E t \in s.timeouts : t.h = h
    THEN LET t == CHOOSE t \in s.timeouts : t.h = h
         IN Emit([s EXCEPT !.timeouts = @ \ {t}], Ev("cleared", t.id, t.kind, <<>>))
    ELSE s

(***************************************************************************)
(* Client-Server interface (ufo.js:64-142).  The entry of an operation is  *)
(* observed as an "op" event.                                              *)
(***************************************************************************)
Op(s, name, id) == Emit(s, Ev("op", id, name, <<>>))

\* A delay that sets the new timeout without clearing the pending one.
delay_keeps_timer(s0, id) ==
    IF s0.thrown THEN s0
    ELSE LET s == Op(s0, "delay", id)
         IN IF ~Exists(s, id) THEN s
            ELSE IF s.connections[id].interval # 0
                 THEN LET h == FreshHandle(s)
                      IN [s EXCEPT !.connections[id].timer = h,
                                   !.timeouts = @ \cup {Timeout(h, "update", id, "", "")}]
                 ELSE s

\* delay(id).  The jittered length of the timeout is not modelled: a pending
\* timeout fires at any later moment.
delay(s0, id) ==
    IF s0.thrown THEN s0
    ELSE LET s == Op(s0, "delay", id)
         IN IF ~Exists(s, id) THEN s
            ELSE IF s.connections[id].interval # 0
                 THEN LET s1 == clearTimeout(s, s.connections[id].timer)
                          h == FreshHandle(s1)
                      IN [s1 EXCEPT !.connections[id].timer = h,
                                    !.timeouts = @ \cup {Timeout(h, "update", id, "", "")}]
                 ELSE s

\* An update that sends the request and leaves the scheduling of the next
\* poll to the completion of the request.
update_sends_without_delay(s, id, by) ==
    IF s.thrown THEN s
    ELSE LET s1 == init(Op(s, "update", id), id, FALSE)
             s2 == callback(s1, id, "update", NoArgs)
         IN IF s2.thrown THEN s2
            ELSE IF ~Truthy(s2.connections[id].url) THEN log(s2, "update - no url")
            ELSE Connection_get(s2, id, by)

\* update(id); by names the caller, for observation only.
update(s, id, by) ==
    IF s.thrown THEN s
    ELSE LET s1 == init(Op(s, "update", id), id, FALSE)
             s2 == callback(s1, id, "update", NoArgs)
         IN IF s2.thrown THEN s2
            ELSE IF ~Truthy(s2.connections[id].url) THEN log(s2, "update - no url")
            ELSE delay(Connection_get(s2, id, by), id)

\* get(id, url)
get(s, id, url) ==
    IF s.thrown THEN s
    ELSE LET s1 == init(Op(s, "get", id), id, FALSE)
             s2 == [s1 EXCEPT !.connections[id].url = url]
             s3 == callback(s2, id, "get", NoArgs)
         IN update(s3, id, "get")

\* post(id, url, form): form is a form object; the upload callback and the
\* removal of empty file inputs from the FormData do not touch the state.
post(s, id, url, form) ==
    IF s.thrown THEN s
    ELSE LET s1 == init(Op(s, "post", id), id, FALSE)
             s2 == [s1 EXCEPT !.connections[id].url = url]
             s3 == callback(s2, id, "post", Arr(<<form>>))
         IN Connection_post(s3, id, form, "post")

\* An interval that, cleared, clears the pending timer with it.
interval_clears_timer(s, id, n) ==
    IF s.thrown THEN s
    ELSE LET s1 == init(Op(s, "interval", id), id, n = 0)
         IN IF ~Exists(s1, id) THEN s1
            ELSE IF n = 0
                 THEN clearTimeout([s1 EXCEPT !.connections[id].interval = n],
                                   s1.connections[id].timer)
                 ELSE [s1 EXCEPT !.connections[id].interval = n]

\* interval(id, interval): 0 is the falsy value.
interval(s, id, n) ==
    IF s.thrown THEN s
    ELSE LET s1 == init(Op(s, "interval", id), id, n = 0)
         IN IF ~Exists(s1, id) THEN s1
            ELSE [s1 EXCEPT !.connections[id].interval = n]

\* abort(id)
abort(s, id) ==
    IF s.thrown THEN s
    ELSE LET s1 == Op(s, "abort", id)
         IN IF ~Exists(s1, id) THEN s1
            ELSE Connection_abort(callback(s1, id, "abort", NoArgs), id)

\* stop(id): abort() is called without an argument, so with id undefined.
stop(s, id) ==
    IF s.thrown THEN s
    ELSE LET s1 == Op(s, "stop", id)
             s2 == IF s1.connections[id].timer # 0
                   THEN clearTimeout(s1, s1.connections[id].timer)
                   ELSE s1
         IN IF ~Exists(s1, id) THEN s1 ELSE abort(s2, Undefined)

\* unset(id): delete connections[id].  The deleted Connection's XMLHttpRequest
\* is not touched by the delete: a request outstanding on it stays outstanding,
\* and its readystatechange handler still holds the id.
unset(s, id) ==
    IF s.thrown THEN s
    ELSE LET s1 == stop(Op(s, "unset", id), id)
         IN IF s1.thrown \/ ~Exists(s1, id) THEN s1
            ELSE [s1 EXCEPT !.connections = Remove(@, id),
                            !.detached = IF s1.connections[id].http.busy
                                         THEN Append(@, [id |-> id, http |-> s1.connections[id].http])
                                         ELSE @]

\* url(id), with undefined for an unknown id; connections().
url(s, id) == IF Exists(s, id) THEN s.connections[id].url ELSE Undefined
list_connections(s) == DOMAIN s.connections

(***************************************************************************)
(* Callback registry: interface (ufo.js:279-308).                          *)
(***************************************************************************)
\* callback_add(id, point, func_name, args)
callback_add(s, id, point, func_name, args) ==
    IF s.thrown THEN s
    ELSE LET s1 == init(s, id, FALSE)
         IN IF func_name \notin DOMAIN s1.callback_functions
            THEN log(s1, "unknown callback function")
            ELSE [s1 EXCEPT !.connections[id].callback[point] = Append(@, Binding(func_name, args))]

\* The property the loop of callback_remove compares: binding.name.  A binding
\* is {func, args} (ufo.js:288) and has no such property.
binding_name(b) == Undefined

\* The loop of callback_remove: the index of the first binding whose name
\* equals func_name, 0 when there is none (index stays undefined), -1 when the
\* loop reads .name of a hole (TypeError).
RECURSIVE callback_remove_index(_, _, _)
callback_remove_index(list, func_name, i) ==
    IF i > Len(list) THEN 0
    ELSE IF list[i].hole THEN -1
    ELSE IF binding_name(list[i]) = func_name THEN i
    ELSE callback_remove_index(list, func_name, i + 1)

\* callback_remove(id, point, func_name): `delete list[index]` leaves a hole
\* at index and the length as it was; `delete list[undefined]` does nothing.
callback_remove(s, id, point, func_name) ==
    IF s.thrown \/ ~Exists(s, id) THEN s
    ELSE LET list == s.connections[id].callback[point]
             index == callback_remove_index(list, func_name, 1)
         IN IF list = <<>> THEN s
            ELSE IF index = -1 THEN Throw(s, "TypeError")
            ELSE IF index = 0 THEN s
            ELSE [s EXCEPT !.connections[id].callback[point][index] = Hole]

\* callback_clear(id)
callback_clear(s, id) ==
    IF s.thrown \/ ~Exists(s, id) THEN s
    ELSE [s EXCEPT !.connections[id].callback = [p \in Points |-> <<>>]]

(***************************************************************************)
(* Data store (ufo.js:340-377).                                            *)
(***************************************************************************)
\* A value of the store: a string, or an object of string and non-string
\* members (what `dataset` carries under the key "ln").
Str(v) == [str |-> v, obj |-> EmptyMap]
Obj(members) == [str |-> "", obj |-> members]
Member(isstr, v) == [isstr |-> isstr, str |-> v]

\* ln_add(values), for an object: the string members are stored.
ln_add(s, values) ==
    [s EXCEPT !.data_ln =
        [k \in DOMAIN @ \cup {m \in DOMAIN values.obj : values.obj[m].isstr} |->
            IF k \in DOMAIN values.obj /\ values.obj[k].isstr THEN values.obj[k].str ELSE @[k]]]

\* The loop of data.set over the listeners of the key.
RECURSIVE data_notify(_, _, _, _)
data_notify(s, key, value, i) ==
    IF i > Len(s.data_callbacks[key]) THEN s
    ELSE data_notify(Emit(s, Ev("listener", key, s.data_callbacks[key][i], <<value>>)),
                     key, value, i + 1)

\* data.set(key, value)
data_set(s, key, value) ==
    IF s.thrown THEN s
    ELSE IF key = "ln" THEN ln_add(s, value)
    ELSE LET s1 == [s EXCEPT !.data = Put(@, key, value)]
         IN IF key \notin DOMAIN s1.data_callbacks THEN s1
            ELSE data_notify(s1, key, value, 1)

\* data.get(key)
data_get(s, key) == IF key \in DOMAIN s.data THEN s.data[key] ELSE Str(Undefined)

\* Array.prototype.indexOf, from 1; 0 for the -1 of JavaScript.
indexOf(list, x) ==
    IF \E i \in 1..Len(list) : list[i] = x
    THEN CHOOSE i \in 1..Len(list) : list[i] = x /\ \A j \in 1..(i - 1) : list[j] # x
    ELSE 0

\* data.listen(key, callback): the first listener of a key makes the list;
\* on a key that has a list, a callback that is not in it returns early.
data_listen(s, key, callback_) ==
    IF s.thrown THEN s
    ELSE IF key \notin DOMAIN s.data_callbacks
         THEN [s EXCEPT !.data_callbacks = Put(@, key, <<callback_>>)]
         ELSE IF indexOf(s.data_callbacks[key], callback_) = 0 THEN s
         ELSE [s EXCEPT !.data_callbacks[key] = Append(@, callback_)]

\* data.unlisten(key, callback): splice(index, 1) returns the array of the
\* elements it removed, and that array becomes the list.
data_unlisten(s, key, callback_) ==
    IF s.thrown THEN s
    ELSE IF key \notin DOMAIN s.data_callbacks THEN s
    ELSE LET index == indexOf(s.data_callbacks[key], callback_)
         IN IF index = 0 THEN s
            ELSE [s EXCEPT !.data_callbacks[key] = <<@[index]>>]

\* data.ln(key): the entry when it is truthy (the empty string is not), else
\* the key.
ln(s, key) ==
    IF key \in DOMAIN s.data_ln /\ s.data_ln[key] # "" THEN s.data_ln[key] ELSE key

(***************************************************************************)
(* Instructions and DOM patch handlers (ufo.js:192-257).                   *)
(***************************************************************************)
\* An instruction object; a field the instruction does not have is undefined.
NoInst ==
    [type |-> Undefined, id |-> Undefined, url |-> Undefined, form |-> Undefined,
     interval |-> 0, point |-> Undefined, func |-> Undefined, args |-> NoArgs,
     target |-> Undefined, name |-> Undefined, content |-> Undefined,
     key |-> Undefined, value |-> Str(Undefined)]

\* reply_log(inst)
reply_log(s, inst) == IF s.thrown THEN s ELSE log(s, "reply_log")

\* What an element's innerHTML reads after content was assigned to it: the
\* browser's serialisation of the parsed content ("y/" stands for markup that
\* serialises to "y", as "<br/>" does to "<br>").
serialise(content) == IF content = "y/" THEN "y" ELSE content

\* A replace() that swaps the element in without comparing the contents.
replace_always_swaps(s0, target, content, id) ==
    IF s0.thrown THEN s0
    ELSE LET found == IF target \in DOMAIN s0.dom THEN <<s0.dom[target].innerHTML>> ELSE <<>>
             s == Emit(s0, Ev("replace", id, target, <<content>> \o found))
         IN IF target \in DOMAIN s.dom
            THEN callback(Emit([s EXCEPT !.dom[target].innerHTML = serialise(content)],
                               Ev("swap", id, target, <<serialise(content)>>)),
                          id, "inner", NoArgs)
            ELSE alert(s, "ufoInner")

\* A replace() that, the element still missing, looks it up again later.
replace_retries_again(s0, target, content, id) ==
    IF s0.thrown THEN s0
    ELSE LET found == IF target \in DOMAIN s0.dom THEN <<s0.dom[target].innerHTML>> ELSE <<>>
             s == Emit(s0, Ev("replace", id, target, <<content>> \o found))
         IN IF target \in DOMAIN s.dom
            THEN IF s.dom[target].innerHTML # serialise(content)
                 THEN callback(Emit([s EXCEPT !.dom[target].innerHTML = serialise(content)],
                                    Ev("swap", id, target, <<serialise(content)>>)),
                               id, "inner", NoArgs)
                 ELSE s
            ELSE [s EXCEPT !.timeouts =
                     @ \cup {Timeout(FreshHandle(s), "retry", id, target, content)}]

\* replace() of reply_output, with original the element found (or not) under
\* the target.  The call is observed as a "replace" event carrying the content
\* and, when the element exists, its innerHTML; the swap as a "swap" event.
replace(s0, target, content, id) ==
    IF s0.thrown THEN s0
    ELSE LET found == IF target \in DOMAIN s0.dom THEN <<s0.dom[target].innerHTML>> ELSE <<>>
             s == Emit(s0, Ev("replace", id, target, <<content>> \o found))
         IN IF target \in DOMAIN s.dom
            THEN IF s.dom[target].innerHTML # serialise(content)
                 THEN callback(Emit([s EXCEPT !.dom[target].innerHTML = serialise(content)],
                                    Ev("swap", id, target, <<serialise(content)>>)),
                               id, "inner", NoArgs)
                 ELSE s
            ELSE alert(s, "ufoInner")

\* reply_output(inst, id): a missing element is looked up again by a timeout.
\* The call is observed as an "output" event.
reply_output(s0, inst, id) ==
    IF s0.thrown THEN s0
    ELSE LET s == Emit(s0, Ev("output", id, inst.target, <<inst.content>>))
         IN IF inst.target \notin DOMAIN s.dom
            THEN [s EXCEPT !.timeouts =
                     @ \cup {Timeout(FreshHandle(s), "retry", id, inst.target, inst.content)}]
            ELSE replace(s, inst.target, inst.content, id)

\* reply_attribute(inst): "value" sets the property, a content of null removes
\* the attribute.  The document has no INPUT element (the "checked" branch).
reply_attribute(s, inst) ==
    IF s.thrown THEN s
    ELSE IF inst.target \in DOMAIN s.dom
         THEN IF inst.name # "value" /\ inst.content = "null"
              THEN [s EXCEPT !.dom[inst.target].attr = Remove(@, inst.name)]
              ELSE [s EXCEPT !.dom[inst.target].attr = Put(@, inst.name, inst.content)]
         ELSE log(s, "Ufo missing attribute target")

\* reply_close(inst): elem.style of a missing element is a TypeError.
reply_close(s, inst) ==
    IF s.thrown THEN s
    ELSE IF inst.target \in DOMAIN s.dom
         THEN [s EXCEPT !.dom[inst.target].display = "none",
                        !.dom[inst.target].innerHTML = ""]
         ELSE Throw(s, "TypeError")

(***************************************************************************)
(* Reply decoder (ufo.js:146-159).                                         *)
(*                                                                         *)
(* A reply body is a sequence of pieces of text: the separator STX, the    *)
(* JSON punctuation "[", "," and "]", the JSON text of one instruction     *)
(* object (an ObjectToken), the JSON number "0", and text that is no JSON  *)
(* ("w", "{").                                                             *)
(***************************************************************************)
ObjectTokens ==
    {"{post a}", "{get a}", "{get}", "{interval a 1}", "{interval a 0}", "{update a}",
     "{stop a}", "{unset a}", "{abort a}", "{log}", "{output t y}", "{output t y/}",
     "{output t x}", "{output m y}", "{attribute t}", "{attribute m}",
     "{close t}", "{close m}", "{callbackadd a reply f}", "{callbackremove a reply f}",
     "{callbackclear a}", "{call f}", "{call g}", "{dataset K 1}", "{dataset K 2}",
     "{nop}", "{zzz}"}

\* The object a token is the JSON text of.
JSON_object(tok) ==
    CASE tok = "{post a}" -> [NoInst EXCEPT !.type = "post", !.id = "a", !.url = "u", !.form = "form"]
      [] tok = "{get a}" -> [NoInst EXCEPT !.type = "get", !.id = "a", !.url = "u"]
      [] tok = "{get}" -> [NoInst EXCEPT !.type = "get", !.url = "u"]
      [] tok = "{interval a 1}" -> [NoInst EXCEPT !.type = "interval", !.id = "a", !.interval = 1]
      [] tok = "{interval a 0}" -> [NoInst EXCEPT !.type = "interval", !.id = "a", !.interval = 0]
      [] tok = "{update a}" -> [NoInst EXCEPT !.type = "update", !.id = "a"]
      [] tok = "{stop a}" -> [NoInst EXCEPT !.type = "stop", !.id = "a"]
      [] tok = "{unset a}" -> [NoInst EXCEPT !.type = "unset", !.id = "a"]
      [] tok = "{abort a}" -> [NoInst EXCEPT !.type = "abort", !.id = "a"]
      [] tok = "{log}" -> [NoInst EXCEPT !.type = "log"]
      [] tok = "{output t y}" -> [NoInst EXCEPT !.type = "output", !.target = "t", !.content = "y"]
      [] tok = "{output t y/}" -> [NoInst EXCEPT !.type = "output", !.target = "t", !.content = "y/"]
      [] tok = "{output t x}" -> [NoInst EXCEPT !.type = "output", !.target = "t", !.content = "x"]
      [] tok = "{output m y}" -> [NoInst EXCEPT !.type = "output", !.target = "m", !.content = "y"]
      [] tok = "{attribute t}" ->
            [NoInst EXCEPT !.type = "attribute", !.target = "t", !.name = "class", !.content = "y"]
      [] tok = "{attribute m}" ->
            [NoInst EXCEPT !.type = "attribute", !.target = "m", !.name = "class", !.content = "y"]
      [] tok = "{close t}" -> [NoInst EXCEPT !.type = "close", !.target = "t"]
      [] tok = "{close m}" -> [NoInst EXCEPT !.type = "close", !.target = "m"]
      [] tok = "{callbackadd a reply f}" ->
            [NoInst EXCEPT !.type = "callbackadd", !.id = "a", !.point = "reply", !.func = "f",
                           !.args = Arr(<<>>)]
      [] tok = "{callbackremove a reply f}" ->
            [NoInst EXCEPT !.type = "callbackremove", !.id = "a", !.point = "reply", !.func = "f"]
      [] tok = "{callbackclear a}" -> [NoInst EXCEPT !.type = "callbackclear", !.id = "a"]
      [] tok = "{call f}" -> [NoInst EXCEPT !.type = "call", !.func = "f", !.args = Arr(<<"1">>)]
      [] tok = "{call g}" -> [NoInst EXCEPT !.type = "call", !.func = "g", !.args = Arr(<<>>)]
      [] tok = "{dataset K 1}" -> [NoInst EXCEPT !.type = "dataset", !.key = "K", !.value = Str("1")]
      [] tok = "{dataset K 2}" -> [NoInst EXCEPT !.type = "dataset", !.key = "K", !.value = Str("2")]
      [] tok = "{nop}" -> [NoInst EXCEPT !.type = "nop"]
      [] OTHER -> [NoInst EXCEPT !.type = "zzz"]

\* String.prototype.split("\x02"): the pieces between the separators.
RECURSIVE split(_)
split(content) ==
    IF \E i \in 1..Len(content) : content[i] = STX
    THEN LET i == CHOOSE i \in 1..Len(content) :
                      /\ content[i] = STX
                      /\ \A j \in 1..(i - 1) : content[j] # STX
         IN <<SubSeq(content, 1, i - 1)>> \o split(SubSeq(content, i + 1, Len(content)))
    ELSE <<content>>

\* JSON.parse(text), for the values the dispatcher can tell apart: an array of
\* objects, or a value whose enumeration yields no instruction (a number, a
\* single object: its members are strings, and a string has no type).
\* ok is FALSE for a SyntaxError.
JSON_parse(text) ==
    LET n == Len(text)
        inner == SubSeq(text, 2, n - 1)
    IN IF n = 1 /\ (text[1] = "0" \/ text[1] \in ObjectTokens)
       THEN [ok |-> TRUE, array |-> <<>>]
       ELSE IF /\ n >= 2
               /\ text[1] = "["
               /\ text[n] = "]"
               /\ (inner = <<>> \/ Len(inner) % 2 = 1)
               /\ \A i \in 1..Len(inner) :
                      IF i % 2 = 1 THEN inner[i] \in ObjectTokens ELSE inner[i] = ","
            THEN [ok |-> TRUE,
                  array |-> [k \in 1..((Len(inner) + 1) \div 2) |-> JSON_object(inner[2 * k - 1])]]
            ELSE [ok |-> FALSE, array |-> <<>>]

(***************************************************************************)
(* Instruction dispatcher (ufo.js:160-190).                                *)
(***************************************************************************)
\* A switch that runs a call instruction where it stands.
apply_inst_call_inline(s, id, inst) ==
    LET s1 == Emit(s, Ev("inst", inst.id, inst.type, <<inst.func>>))
        ran == [Ev("tailcall", "", inst.func, apply_args(inst.args)) EXCEPT !.seen = s1.data]
    IN CASE inst.type = "abort" -> abort(s1, inst.id)
         [] inst.type = "close" -> reply_close(s1, inst)
         [] inst.type = "call" -> callback_call(Emit(s1, ran), inst.func, inst.args)
         [] inst.type = "dataset" -> data_set(s1, inst.key, inst.value)
         [] OTHER -> s1

\* One pass of the switch.  The application of an instruction is observed as
\* an "inst" event.
apply_inst(s, id, inst) ==
    LET s1 == Emit(s, Ev("inst", inst.id, inst.type, <<inst.func>>))
    IN CASE inst.type = "post" -> get(s1, inst.id, inst.url)
         [] inst.type = "get" -> get(s1, inst.id, inst.url)
         [] inst.type = "interval" -> interval(s1, inst.id, inst.interval)
         [] inst.type = "update" -> update(s1, inst.id, "update")
         [] inst.type = "stop" -> stop(s1, inst.id)
         [] inst.type = "unset" -> unset(s1, inst.id)
         [] inst.type = "abort" -> abort(s1, inst.id)
         [] inst.type = "log" -> reply_log(s1, inst)
         [] inst.type = "output" -> reply_output(s1, inst, id)
         [] inst.type = "attribute" -> reply_attribute(s1, inst)
         [] inst.type = "close" -> reply_close(s1, inst)
         [] inst.type = "callbackadd" -> callback_add(s1, inst.id, inst.point, inst.func, inst.args)
         [] inst.type = "callbackremove" -> callback_remove(s1, inst.id, inst.point, inst.func)
         [] inst.type = "callbackclear" -> callback_clear(s1, inst.id)
         [] inst.type = "call" -> [s1 EXCEPT !.tailcalls = Append(@, inst)]
         [] inst.type = "dataset" -> data_set(s1, inst.key, inst.value)
         [] OTHER -> s1

\* The loop over the instructions, in array order.
RECURSIVE dispatch(_, _, _, _)
dispatch(s, id, output_array, k) ==
    IF s.thrown \/ k > Len(output_array) THEN s
    ELSE dispatch(apply_inst(s, id, output_array[k]), id, output_array, k + 1)

\* The loop over the buffered tailcalls.  The run of a tailcall is observed as
\* a "tailcall" event, whether or not a function is registered under the name.
RECURSIVE run_tailcalls(_, _)
run_tailcalls(s, i) ==
    IF s.thrown \/ i > Len(s.tailcalls) THEN s
    ELSE LET ran == [Ev("tailcall", "", s.tailcalls[i].func, apply_args(s.tailcalls[i].args))
                        EXCEPT !.seen = s.data]
         IN run_tailcalls(callback_call(Emit(s, ran), s.tailcalls[i].func, s.tailcalls[i].args),
                          i + 1)

\* The objects at the head of a text that starts an array.
RECURSIVE leading_objects(_, _)
leading_objects(text, k) ==
    IF k <= Len(text) /\ text[k] \in ObjectTokens
    THEN <<JSON_object(text[k])>> \o
         (IF k + 1 <= Len(text) /\ text[k + 1] = "," THEN leading_objects(text, k + 2) ELSE <<>>)
    ELSE <<>>

\* A decoder that, on a syntax error, applies what it had parsed of the array.
parse_reply_partial(s, id, content) ==
    IF s.thrown THEN s
    ELSE LET pieces == split(content)
             s0 == Emit(s, Ev("content", id, "", content))
             s1 == IF Len(pieces) > 1 /\ pieces[1] # <<>>
                   THEN Emit(s0, Ev("log", id, "UFO ignored content", pieces[1]))
                   ELSE s0
             text == IF Len(pieces) > 1 THEN pieces[2] ELSE pieces[1]
             parsed == JSON_parse(text)
             s2 == Emit(s1, Ev("parse", id, IF parsed.ok THEN "ok" ELSE "SyntaxError", text))
             s3 == Emit(alert(s2, "ufoReturn - ParseError"), Ev("log", id, "content", text))
         IN IF ~parsed.ok
            THEN IF text # <<>> /\ text[1] = "["
                 THEN dispatch([s3 EXCEPT !.tailcalls = <<>>], id, leading_objects(text, 2), 1)
                 ELSE s3
            ELSE run_tailcalls(dispatch([s2 EXCEPT !.tailcalls = <<>>], id, parsed.array, 1), 1)

\* parse_reply(id, content).  The body is observed as a "content" event, the
\* text handed to JSON.parse as a "parse" event.
parse_reply(s, id, content) ==
    IF s.thrown THEN s
    ELSE LET pieces == split(content)
             s0 == Emit(s, Ev("content", id, "", content))
             s1 == IF Len(pieces) > 1 /\ pieces[1] # <<>>
                   THEN Emit(s0, Ev("log", id, "UFO ignored content", pieces[1]))
                   ELSE s0
             text == IF Len(pieces) > 1 THEN pieces[2] ELSE pieces[1]
             parsed == JSON_parse(text)
             s2 == Emit(s1, Ev("parse", id, IF parsed.ok THEN "ok" ELSE "SyntaxError", text))
         IN IF ~parsed.ok
            THEN Emit(alert(s2, "ufoReturn - ParseError"), Ev("log", id, "content", text))
            ELSE run_tailcalls(dispatch([s2 EXCEPT !.tailcalls = <<>>], id, parsed.array, 1), 1)

(***************************************************************************)
(* Request completion (ufo.js:6-8, 22-31).                                 *)
(***************************************************************************)
status_callback_points == [st \in {403} |-> "forbidden"]

\* A handler that decodes the body before it fires 'reply'.
onreadystatechange_decode_first(s, id, status, responseText) ==
    IF status = 200
    THEN callback(parse_reply(s, id, responseText), id, "reply", NoArgs)
    ELSE IF status \in DOMAIN status_callback_points
         THEN callback(s, id, status_callback_points[status], NoArgs)
         ELSE s

\* A handler that takes every status that is not in the table for a success.
onreadystatechange_any_status(s, id, status, responseText) ==
    IF status \in DOMAIN status_callback_points
    THEN callback(s, id, status_callback_points[status], NoArgs)
    ELSE parse_reply(callback(s, id, "reply", NoArgs), id, responseText)

\* A handler that stops the polling of the connection when its request fails.
onreadystatechange_failure_stops_poll(s, id, status, responseText) ==
    IF status = 200
    THEN parse_reply(callback(s, id, "reply", NoArgs), id, responseText)
    ELSE IF status \in DOMAIN status_callback_points
         THEN callback(s, id, status_callback_points[status], NoArgs)
         ELSE IF Exists(s, id) THEN clearTimeout(s, s.connections[id].timer) ELSE s

\* The readystatechange handler at readyState 4, of the XMLHttpRequest whose
\* Connection was made for id.
onreadystatechange(s, id, status, responseText) ==
    IF status = 200
    THEN parse_reply(callback(s, id, "reply", NoArgs), id, responseText)
    ELSE IF status \in DOMAIN status_callback_points
         THEN callback(s, id, status_callback_points[status], NoArgs)
         ELSE s

Init ==
    /\ connections = EmptyMap
    /\ detached = <<>>
    /\ timeouts = {}
    /\ callback_functions = EmptyMap
    /\ data = EmptyMap
    /\ data_callbacks = EmptyMap
    /\ data_ln = EmptyMap
    /\ dom = [t \in Targets |-> Element("x")]
    /\ events = <<>>

(***************************************************************************)
(* Actions: one per handler.  Every handler starts with an event naming it.*)
(***************************************************************************)
Called(op, id, args) == Emit(State, Ev("api", id, op, args))

\* The bounds of the model, on the state a handler leaves.
WithinBounds(s) ==
    /\ Len(s.detached) <= MaxDetached
    /\ Cardinality(s.timeouts) <= MaxTimeouts
    /\ \A id \in DOMAIN s.connections : \A p \in Points :
           Len(s.connections[id].callback[p]) <= MaxBindings
    /\ \A key \in DOMAIN s.data_callbacks : Len(s.data_callbacks[key]) <= MaxListeners

\* The application's calls into the exported interface (ufo.js:321-337).
Get(id, u) ==
    LET s == get(Called("get", id, <<u>>), id, u)
    IN WithinBounds(s) /\ Commit(s)
Post(id, u) ==
    LET s == post(Called("post", id, <<u>>), id, u, "form")
    IN WithinBounds(s) /\ Commit(s)
Update(id) ==
    LET s == update(Called("update", id, <<>>), id, "update")
    IN WithinBounds(s) /\ Commit(s)
Interval(id, n) ==
    LET s == interval(Called("interval", id, <<>>), id, n)
    IN WithinBounds(s) /\ Commit(s)
Delay(id) ==
    LET s == delay(Called("delay", id, <<>>), id)
    IN WithinBounds(s) /\ Commit(s)
Stop(id) ==
    LET s == stop(Called("stop", id, <<>>), id)
    IN WithinBounds(s) /\ Commit(s)
Unset(id) ==
    LET s == unset(Called("unset", id, <<>>), id)
    IN WithinBounds(s) /\ Commit(s)
Abort(id) ==
    LET s == abort(Called("abort", id, <<>>), id)
    IN WithinBounds(s) /\ Commit(s)
CallbackAdd(id, point, f, args) ==
    LET s == callback_add(Called("callback_add", id, <<point, f>>), id, point, f, args)
    IN WithinBounds(s) /\ Commit(s)
CallbackRemove(id, point, f) ==
    LET s == callback_remove(Called("callback_remove", id, <<point, f>>), id, point, f)
    IN WithinBounds(s) /\ Commit(s)
CallbackClear(id) ==
    LET s == callback_clear(Called("callback_clear", id, <<>>), id)
    IN WithinBounds(s) /\ Commit(s)

\* The application's calls into the data store (ufo.js:340-377).  get and ln
\* read the store and change nothing.
DataSet(key, value) ==
    LET s == data_set(Called("data.set", key, <<value>>), key, value)
    IN WithinBounds(s) /\ Commit(s)
DataListen(key, callback_) ==
    LET s == data_listen(Called("data.listen", key, <<callback_>>), key, callback_)
    IN WithinBounds(s) /\ Commit(s)
DataUnlisten(key, callback_) ==
    LET s == data_unlisten(Called("data.unlisten", key, <<callback_>>), key, callback_)
    IN WithinBounds(s) /\ Commit(s)

\* The page gains an element: a script of the page, or markup swapped in
\* around it, creates the element that an instruction targets.
CreateElement(target) ==
    /\ target \notin DOMAIN dom
    /\ Commit([Called("document", "", <<target>>) EXCEPT !.dom = Put(@, target, Element("x"))])

\* The application registers a function under a name, or removes the name
\* (callback_functions is exported as it is, ufo.js:333).
SetFunction(f, impl) ==
    /\ IF f \in DOMAIN callback_functions THEN callback_functions[f] # impl ELSE TRUE
    /\ Commit([Called("callback_functions", "", <<f, impl>>) EXCEPT
                  !.callback_functions = Put(@, f, impl)])
DeleteFunction(f) ==
    /\ f \in DOMAIN callback_functions
    /\ Commit([Called("callback_functions", "", <<f>>) EXCEPT
                  !.callback_functions = Remove(@, f)])

\* The JSON text of an array of objects.
ArrayText(toks) ==
    <<"[">> \o [i \in 1..(2 * Len(toks) - 1) |-> IF i % 2 = 1 THEN toks[(i + 1) \div 2] ELSE ","]
            \o <<"]">>

\* The observed start of a completion: the id, the status, the request that
\* completed (its method, url, form and the operation that sent it) and whose
\* it is: of a Connection in the registry ("attached") or of a deleted one.
Completed(s, id, status, http, of) ==
    Emit(s, Ev("complete", id, IF status = 200 THEN "200" ELSE IF status = 403 THEN "403" ELSE "500",
               <<http.method, http.url, http.form, http.by, of>>))

\* The request of connection id completes with a status and a body.  Only a
\* completion with status 200 reads the body.
Complete(id, status, body) ==
    /\ status = 200 \/ body = ArrayText(<<>>)
    /\ id \in DOMAIN connections
    /\ connections[id].http.busy
    /\ LET s0 == [State EXCEPT !.connections[id].http = Idle]
           s == onreadystatechange(Completed(s0, id, status, connections[id].http, "attached"),
                                   id, status, body)
       IN WithinBounds(s) /\ Commit(s)

\* A request left outstanding by a deleted Connection completes.
CompleteDetached(i, status, body) ==
    /\ status = 200 \/ body = ArrayText(<<>>)
    /\ i \in 1..Len(detached)
    /\ LET s0 == [State EXCEPT !.detached = SubSeq(@, 1, i - 1) \o SubSeq(@, i + 1, Len(@))]
           s == onreadystatechange(
                    Completed(s0, detached[i].id, status, detached[i].http, "detached"),
                    detached[i].id, status, body)
       IN WithinBounds(s) /\ Commit(s)

\* A pending timeout fires: update(id), or the retry of reply_output
\* (ufo.js:208-211).
TimerFire(t) ==
    /\ t \in timeouts
    /\ \E s0 \in {Emit([State EXCEPT !.timeouts = @ \ {t}], Ev("timer", t.id, t.kind, <<>>))} :
       \E s \in {IF t.kind = "update"
                 THEN update(s0, t.id, "update")
                 ELSE replace(s0, t.target, t.content, t.id)} :
           WithinBounds(s) /\ Commit(s)

(***************************************************************************)
(* Reply bodies.                                                           *)
(***************************************************************************)
\* The connections with a request outstanding.
Busy == {id \in DOMAIN connections : connections[id].http.busy}

\* The sequences of at most n elements of S.
SeqsUpTo(S, n) == UNION {[1..k -> S] : k \in 0..n}

Statuses == {200, 403, 500}

\* Bodies of the connection specification: an array of at most one instruction
\* that acts on connections, with and without diagnostic text, and a body that
\* is no JSON.
ConnectionTokens ==
    {"{post a}", "{get a}", "{interval a 1}", "{interval a 0}", "{update a}",
     "{stop a}", "{unset a}", "{abort a}", "{nop}"}
ConnectionBodies ==
    {ArrayText(q) : q \in SeqsUpTo(ConnectionTokens, 1)}
        \cup {<<"w", STX>> \o ArrayText(<<"{nop}">>), <<"{">>}

(***************************************************************************)
(* Specification of the connections: the application's calls, timers and   *)
(* completions.                                                            *)
(***************************************************************************)
Next ==
    \/ \E id \in Ids, u \in Urls : Get(id, u)
    \/ \E id \in Ids, u \in Urls : Post(id, u)
    \/ \E id \in Ids : Update(id)
    \/ \E id \in Ids, n \in {0, 1} : Interval(id, n)
    \/ \E id \in Ids : Delay(id)
    \/ \E id \in Ids : Stop(id)
    \/ \E id \in Ids : Unset(id)
    \/ \E id \in Ids : Abort(id)
    \/ \E id \in Busy : \E st \in Statuses, body \in ConnectionBodies : Complete(id, st, body)
    \/ \E i \in DOMAIN detached : \E st \in Statuses, body \in ConnectionBodies :
           CompleteDetached(i, st, body)
    \/ \E t \in timeouts : TimerFire(t)

Spec == Init /\ [][Next]_vars

(***************************************************************************)
(* Specification of the dispatcher: replies that carry batches of dataset, *)
(* call and abort instructions, and of an instruction that throws (close   *)
(* of an element the document does not have), with functions registered    *)
(* and bound.                                                              *)
(***************************************************************************)
DispatchTokens ==
    {"{dataset K 1}", "{dataset K 2}", "{call f}", "{call g}", "{abort a}", "{close m}"}
DispatchBodies == {ArrayText(q) : q \in SeqsUpTo(DispatchTokens, MaxBatch)}

NextDispatch ==
    \/ \E f \in FuncNames : SetFunction(f, "F1")
    \/ \E id \in Ids : CallbackAdd(id, "abort", "f", Arr(<<"1">>))
    \/ \E id \in Ids : Get(id, "u")
    \/ \E id \in Busy : \E body \in DispatchBodies : Complete(id, 200, body)

SpecDispatch == Init /\ [][NextDispatch]_vars

(***************************************************************************)
(* Specification of the decoder: replies with every body of at most        *)
(* MaxBody pieces of text.                                                 *)
(***************************************************************************)
DecodeAlphabet == {STX, "[", "]", ",", "{dataset K 1}", "w"}
DecodeBodies == SeqsUpTo(DecodeAlphabet, MaxBody)

NextDecode ==
    \/ \E id \in Ids : Get(id, "u")
    \/ \E id \in Busy : \E body \in DecodeBodies : Complete(id, 200, body)

SpecDecode == Init /\ [][NextDecode]_vars

(***************************************************************************)
(* Specification of the callback registry: functions are registered and    *)
(* removed, bindings are added, removed and cleared, and the points        *)
(* 'abort' (no additional arguments) and 'post' (the form) are fired.      *)
(***************************************************************************)
CallbackPoints == {"abort", "post"}
CallbackArgs == {NoArgs, Arr(<<"1">>)}

NextCallback ==
    \/ \E f \in FuncNames, impl \in Impls : SetFunction(f, impl)
    \/ \E f \in FuncNames : DeleteFunction(f)
    \/ \E id \in Ids, p \in CallbackPoints, f \in FuncNames, args \in CallbackArgs :
           CallbackAdd(id, p, f, args)
    \/ \E id \in Ids, p \in CallbackPoints, f \in FuncNames \cup {Undefined} :
           CallbackRemove(id, p, f)
    \/ \E id \in Ids : CallbackClear(id)
    \/ \E id \in Ids : Abort(id)
    \/ \E id \in Ids : Post(id, Undefined)

SpecCallback == Init /\ [][NextCallback]_vars

(***************************************************************************)
(* Specification of the data store: a string and an object are set under   *)
(* the key "K", objects of string and non-string members under "ln", and   *)
(* the listeners L1 and L2 of "K" are registered and removed.              *)
(***************************************************************************)
DataKeys == {"K"}
DataValues == {Str("1"), Obj([a |-> Member(TRUE, "x")])}
Listeners == {"L1", "L2"}
LnKeys == {"a", "b"}
LnMembers == {Member(TRUE, "x"), Member(TRUE, ""), Member(FALSE, "7")}
LnValues == {Obj(m) : m \in UNION {[D -> LnMembers] : D \in SUBSET LnKeys}}

NextData ==
    \/ \E key \in DataKeys, value \in DataValues : DataSet(key, value)
    \/ \E value \in LnValues : DataSet("ln", value)
    \/ \E key \in DataKeys, fn \in Listeners : DataListen(key, fn)
    \/ \E key \in DataKeys, fn \in Listeners : DataUnlisten(key, fn)

SpecData == Init /\ [][NextData]_vars

(***************************************************************************)
(* Specification of the DOM patch handlers: replies that carry batches of  *)
(* output, attribute, close and call instructions for the element "t" of   *)
(* the document and for an element "m" that the document gains later, and  *)
(* the retries of output.                                                  *)
(***************************************************************************)
PatchTokens ==
    {"{output t y}", "{output t y/}", "{output m y}", "{attribute m}", "{close m}",
     "{call f}"}
PatchBodies == {ArrayText(q) : q \in SeqsUpTo(PatchTokens, MaxBatch)}

NextPatch ==
    \/ \E id \in Ids : Get(id, "u")
    \/ \E id \in Busy : \E body \in PatchBodies : Complete(id, 200, body)
    \/ CreateElement("m")
    \/ \E t \in timeouts : TimerFire(t)

SpecPatch == Init /\ [][NextPatch]_vars

(***************************************************************************)
(* Specification of the polling: the calls that start, repeat, postpone,   *)
(* cancel and end the polling of a connection, completions with every      *)
(* status and with bodies that are empty, no JSON, or a stop instruction,  *)
(* and the timers, which fire fairly: a timeout that stays pending does    *)
(* fire (the event loop of the browser runs every timeout that is not      *)
(* cleared; one that clearTimeout has cleared never runs).                 *)
(***************************************************************************)
PollBodies == {ArrayText(<<>>), <<"{">>, ArrayText(<<"{stop a}">>)}

\* The handles a timeout can have here, where the only timeouts are the polls:
\* a connection has one poll pending at most, whose handle is the timer of the
\* connection, so that the handles in use are as many as the ids at most.
Handles == 1..(Cardinality(Ids) + 1)

HandlesOfPolls == \A t \in timeouts : t.kind = "update" /\ t.h \in Handles

NextPoll ==
    \/ \E id \in Ids : Get(id, "u")
    \/ \E id \in Ids, n \in {0, 1} : Interval(id, n)
    \/ \E id \in Ids : Update(id)
    \/ \E id \in Ids : Delay(id)
    \/ \E id \in Ids : Abort(id)
    \/ \E id \in Ids : Stop(id)
    \/ \E id \in Ids : Unset(id)
    \/ \E id \in Busy : \E st \in Statuses, body \in PollBodies : Complete(id, st, body)
    \/ \E i \in DOMAIN detached : \E st \in Statuses :
           CompleteDetached(i, st, ArrayText(<<>>))
    \/ \E t \in timeouts : TimerFire(t)

TimersFire == \A h \in Handles : WF_vars(\E t \in timeouts : t.h = h /\ TimerFire(t))

SpecPoll == Init /\ [][NextPoll]_vars /\ TimersFire

(***************************************************************************)
(* Reading the events of the last handler.                                 *)
(***************************************************************************)
\* The handler was the application's call op(id, ...).
IsCall(evs, op, id) ==
    evs # <<>> /\ evs[1].t = "api" /\ evs[1].x = op /\ evs[1].id = id

\* The handler was a completion with status 200.
IsReply(evs) == evs # <<>> /\ evs[1].t = "complete" /\ evs[1].x = "200"

\* The handler ended in an uncaught exception.
Threw(evs) == \E k \in 1..Len(evs) : evs[k].t = "throw"

\* The positions of the events of a kind.
At(evs, kind) == {k \in 1..Len(evs) : evs[k].t = kind}

\* The firing of a point on an id, without additional arguments.
Fired(id, point) == Ev("point", id, point, <<>>)

(***************************************************************************)
(* C1.  In a run where get(id, url) is called and its request completes    *)
(* with status 200, the callback points of id fire in the order 'get',     *)
(* 'update', 'reply', and all three have fired before the first            *)
(* instruction of that reply is applied or a tailcall is run: in the       *)
(* handler that sends a request on behalf of get, 'get' and then 'update'  *)
(* are the last two points fired on the id before the send, and in the     *)
(* handler of the completion of such a request, 'reply' is fired on the id *)
(* before the body is read, an instruction is applied or a tailcall runs.  *)
(***************************************************************************)
C1_GetUpdateReplyThenInstructions ==
    /\ \A k \in At(events, "send") :
           events[k].args[3] = "get" =>
               \E i, j \in 1..(k - 1) :
                   /\ i < j
                   /\ events[i] = Fired(events[k].id, "get")
                   /\ events[j] = Fired(events[k].id, "update")
                   /\ \A m \in (i + 1)..(k - 1) :
                          events[m].t = "point" /\ events[m].id = events[k].id => m = j
    /\ IsReply(events) /\ events[1].args[4] = "get" =>
           /\ Len(events) >= 2
           /\ events[2] = Fired(events[1].id, "reply")
           /\ \A k \in At(events, "content") \cup At(events, "inst") \cup At(events, "tailcall") :
                  k > 2

\* A reply to a request sent by get has been dispatched, instruction included.
C1_Witness ==
    /\ IsReply(events)
    /\ events[1].args[4] = "get"
    /\ At(events, "inst") # {}

(***************************************************************************)
(* C3.  As claimed: after interval(id, n) with n truthy and one completed  *)
(* update(id) on a connection with a url, exactly one re-poll is pending   *)
(* for id, and interval(id, 0), called before that poll fires, cancels it, *)
(* so that no further request is issued on id.                             *)
(***************************************************************************)
\* The pending re-polls of id.
Polls(pending, id) == {t \in pending : t.kind = "update" /\ t.id = id}

\* The handler ran update(id) from the top: the application's call or a poll.
IsUpdate(evs, id) ==
    IsCall(evs, "update", id) \/ (evs # <<>> /\ evs[1] = Ev("timer", id, "update", <<>>))

\* After update(id) on a connection with a url and an interval, one re-poll
\* is pending, and it is the connection's timer.
C3_OnePollAfterUpdate ==
    \A id \in Ids :
        /\ IsUpdate(events, id)
        /\ ~Threw(events)
        /\ Exists(State, id)
        /\ Truthy(connections[id].url)
        /\ connections[id].interval # 0
        => /\ Cardinality(Polls(timeouts, id)) = 1
           /\ \A t \in Polls(timeouts, id) : t.h = connections[id].timer

C3_IntervalZeroCancelsPoll ==
    /\ C3_OnePollAfterUpdate
    /\ \A id \in Ids :
           IsCall(events, "interval", id) /\ Exists(State, id) /\ connections[id].interval = 0
               => Polls(timeouts, id) = {}

(***************************************************************************)
(* C3, amended.  After interval(id, n) with n truthy and one update(id) on *)
(* a connection with a url, exactly one re-poll is pending for id.         *)
(* interval(id, 0) does not cancel it (interval changes no timeout): the   *)
(* pending poll still fires and, the url being set, issues one more        *)
(* request on id; it schedules no further poll.                            *)
(***************************************************************************)
C3_PollAfterIntervalZero ==
    \A id \in Ids :
        /\ events # <<>>
        /\ events[1] = Ev("timer", id, "update", <<>>)
        /\ ~Threw(events)
        /\ Exists(State, id)
        /\ Truthy(connections[id].url)
        /\ connections[id].interval = 0
        => /\ \E k \in At(events, "send") : events[k].id = id
           /\ Polls(timeouts, id) = {}

C3_IntervalKeepsPendingPoll ==
    /\ []C3_OnePollAfterUpdate
    /\ []C3_PollAfterIntervalZero
    /\ [][\A id \in Ids : IsCall(events', "interval", id) => timeouts' = timeouts]_vars

\* A poll has fired after interval(id, 0), and issued its request.
C3_Witness ==
    \E id \in Ids :
        /\ events # <<>>
        /\ events[1] = Ev("timer", id, "update", <<>>)
        /\ Exists(State, id)
        /\ connections[id].interval = 0
        /\ \E k \in At(events, "send") : events[k].id = id

(***************************************************************************)
(* C4.  stop(id), and unset(id) through it, clears the pending poll timer  *)
(* of the connection and cancels the in-flight request of that same id and *)
(* of no other: after it returns, id has no pending timer and no request   *)
(* outstanding, and every other connection is as it was.                   *)
(***************************************************************************)
C4_StopCancelsTimerAndOwnRequest ==
    [][\A id \in Ids :
           /\ IsCall(events', "stop", id) \/ IsCall(events', "unset", id)
           /\ ~Threw(events')
           /\ id \in DOMAIN connections
           => /\ Polls(timeouts', id) = {}
              /\ id \in DOMAIN connections' => ~connections'[id].http.busy
              /\ Len(detached') = Len(detached)
              /\ \A o \in DOMAIN connections \ {id} :
                     o \in DOMAIN connections' /\ connections'[o] = connections[o]]_vars

(***************************************************************************)
(* C5.  After unset(id) the id is as if never used: it is absent from      *)
(* connections(), url(id) is undefined, no timer of it is pending, and     *)
(* nothing left over from the removed connection later triggers a callback *)
(* point or a reply dispatch under the id: every completion is of a        *)
(* request of a connection that is in the registry.                        *)
(***************************************************************************)
C5_UnsetLeavesNothingBehind ==
    /\ \A id \in Ids :
           IsCall(events, "unset", id) /\ ~Threw(events)
               => /\ id \notin list_connections(State)
                  /\ url(State, id) = Undefined
                  /\ Polls(timeouts, id) = {}
    /\ \A k \in At(events, "complete") : events[k].args[5] = "attached"

(***************************************************************************)
(* C8.  Dispatching an instruction with a tag in post, get, interval,      *)
(* update, stop, unset, abort enters the operation of the same name on the *)
(* instruction's id; a post instruction fires the 'post' point with the    *)
(* form and sends a POST.                                                  *)
(***************************************************************************)
ConnectionTags == {"post", "get", "interval", "update", "stop", "unset", "abort"}

C8_InstructionEntersOperationOfItsName ==
    \A k \in At(events, "inst") :
        events[k].x \in ConnectionTags
            => /\ k < Len(events)
               /\ events[k + 1] = Ev("op", events[k].id, events[k].x, <<>>)
               /\ events[k].x = "post"
                      => \E m \in At(events, "send") :
                             m > k /\ events[m].id = events[k].id /\ events[m].x = "POST"

(***************************************************************************)
(* C2.  In every successfully parsed reply batch a call instruction is     *)
(* executed only after every instruction of the batch has been applied,    *)
(* and the call instructions execute in their array order: every tailcall  *)
(* runs after the last instruction was applied and sees the data store as  *)
(* the batch left it (for [dataset K=1, call F, dataset K=2], K is 2 when  *)
(* F runs); the tailcalls run are the call instructions, in order; each    *)
(* calls the function registered under its name with its arguments.        *)
(***************************************************************************)
\* The function names of the events of a kind that satisfy a test, in order.
CallInstructions(evs) ==
    LET sel == SelectSeq(evs, LAMBDA e : e.t = "inst" /\ e.x = "call")
    IN [i \in 1..Len(sel) |-> sel[i].args[1]]
Tailcalls(evs) ==
    LET sel == SelectSeq(evs, LAMBDA e : e.t = "tailcall")
    IN [i \in 1..Len(sel) |-> sel[i].x]

C2_TailcallsAfterBatchInOrder ==
    IsReply(events) =>
        /\ \A i \in At(events, "inst"), k \in At(events, "tailcall") : i < k
        /\ \A k \in At(events, "tailcall") :
               /\ events[k].seen = data
               /\ events[k].x \in DOMAIN callback_functions
                      => /\ k < Len(events)
                         /\ events[k + 1] =
                                Ev("call", callback_functions[events[k].x], events[k].x, events[k].args)
        /\ Tailcalls(events) = IF Threw(events) THEN <<>> ELSE CallInstructions(events)

\* The batch [dataset K=1, call f, dataset K=2] was dispatched and f ran,
\* seeing K = 2.
C2_Witness ==
    /\ IsReply(events)
    /\ \E i, j, k \in At(events, "inst") :
           /\ i < j /\ j < k
           /\ events[i].x = "dataset" /\ events[j].x = "call" /\ events[k].x = "dataset"
    /\ \E k \in At(events, "tailcall") :
           /\ events[k].x = "f"
           /\ events[k].seen = [key \in {"K"} |-> Str("2")]
           /\ k < Len(events)
           /\ events[k + 1].t = "call"

(***************************************************************************)
(* C6.  For every reply body whose JSON part fails to parse, the decoder   *)
(* raises exactly one alert, logs the text it could not parse, and applies *)
(* no instruction and no tailcall: the connection registry (but for the    *)
(* request that completed), the callback registry, the data store and the  *)
(* DOM are after the decode as they were before it.                        *)
(***************************************************************************)
ParseFailed(evs) == \E k \in At(evs, "parse") : evs[k].x = "SyntaxError"

C6_ParseFailureDropsBatch ==
    [][ParseFailed(events') =>
           /\ Cardinality(At(events', "alert")) = 1
           /\ \A k \in At(events', "parse") :
                  /\ k + 2 = Len(events')
                  /\ events'[k + 1].t = "alert"
                  /\ events'[k + 2] = Ev("log", events'[k].id, "content", events'[k].args)
           /\ At(events', "inst") = {}
           /\ At(events', "tailcall") = {}
           /\ DOMAIN connections' = DOMAIN connections
           /\ \A id \in DOMAIN connections :
                  connections'[id] = [connections[id] EXCEPT !.http = connections'[id].http]
           /\ timeouts' = timeouts
           /\ callback_functions' = callback_functions
           /\ data' = data /\ data_callbacks' = data_callbacks /\ data_ln' = data_ln
           /\ dom' = dom]_vars

\* A body that holds an instruction and is no JSON has been decoded.
C6_Witness ==
    /\ ParseFailed(events)
    /\ \E k \in At(events, "content") :
           \E i \in 1..Len(events[k].args) : events[k].args[i] \in ObjectTokens

(***************************************************************************)
(* C7.  For every reply body: if it contains the separator, the text       *)
(* before the first separator is only forwarded to the log and the whole   *)
(* remainder of the body after that separator is what is parsed as JSON;   *)
(* if it contains none, the whole body is parsed.  So the decode succeeds  *)
(* or fails as JSON.parse of that text does, and the instructions applied  *)
(* are the ones that text holds.                                           *)
(***************************************************************************)
HasSeparator(body) == \E i \in 1..Len(body) : body[i] = STX
FirstSeparator(body) ==
    CHOOSE i \in 1..Len(body) : body[i] = STX /\ \A j \in 1..(i - 1) : body[j] # STX
BeforeSeparator(body) == SubSeq(body, 1, FirstSeparator(body) - 1)
AfterSeparator(body) == SubSeq(body, FirstSeparator(body) + 1, Len(body))

C7_RemainderAfterSeparatorIsParsed ==
    \A k \in At(events, "content") :
        LET body == events[k].args
            parsed == JSON_parse(IF HasSeparator(body) THEN AfterSeparator(body) ELSE body)
        IN /\ ParseFailed(events) = ~parsed.ok
           /\ ~Threw(events) =>
                  Len(SelectSeq(events, LAMBDA e : e.t = "inst")) = Len(parsed.array)
           /\ HasSeparator(body) /\ BeforeSeparator(body) # <<>>
                  => events[k + 1] = Ev("log", events[k].id, "UFO ignored content",
                                        BeforeSeparator(body))

(***************************************************************************)
(* C9.  callback_remove(id, point, f) removes the first binding at         *)
(* (id, point) whose function name is f and leaves all other bindings in   *)
(* their order; it is a no-op when the connection or the point list does   *)
(* not exist.                                                              *)
(***************************************************************************)
RECURSIVE WithoutFirst(_, _)
WithoutFirst(list, f) ==
    IF list = <<>> THEN <<>>
    ELSE IF ~Head(list).hole /\ Head(list).func = f THEN Tail(list)
    ELSE <<Head(list)>> \o WithoutFirst(Tail(list), f)

C9_RemoveDropsFirstBindingOfName ==
    [][\A id \in Ids, p \in Points, f \in FuncNames :
           events'[1] = Ev("api", id, "callback_remove", <<p, f>>) =>
               IF id \in DOMAIN connections
               THEN /\ id \in DOMAIN connections'
                    /\ connections'[id] =
                           [connections[id] EXCEPT
                               !.callback[p] = WithoutFirst(connections[id].callback[p], f)]
               ELSE connections' = connections]_vars

(***************************************************************************)
(* C10.  When a callback point (id, point) is fired with additional        *)
(* arguments E (possibly none), every binding registered at (id, point) is *)
(* invoked once, in registration order, with the function currently        *)
(* registered under its name and with the argument list of exactly the     *)
(* binding's own args followed by E.                                       *)
(***************************************************************************)
\* The calls a firing owes: one per binding whose name is registered.
RECURSIVE OwedCalls(_, _, _)
OwedCalls(list, table, E) ==
    IF list = <<>> THEN <<>>
    ELSE LET b == Head(list)
             rest == OwedCalls(Tail(list), table, E)
         IN IF ~b.hole /\ b.func \in DOMAIN table
            THEN <<Ev("call", table[b.func], b.func, b.args.items \o E)>> \o rest
            ELSE rest

\* The calls that follow the firing at position k.
RECURSIVE CallsFrom(_, _)
CallsFrom(evs, k) ==
    IF k <= Len(evs) /\ evs[k].t = "call" THEN <<evs[k]>> \o CallsFrom(evs, k + 1) ELSE <<>>

C10_FiringCallsEveryBindingWithItsArgs ==
    [][\A id \in DOMAIN connections :
           /\ IsCall(events', "abort", id)
                  => /\ events'[3] = Fired(id, "abort")
                     /\ CallsFrom(events', 4)
                            = OwedCalls(connections[id].callback["abort"], callback_functions, <<>>)
           /\ IsCall(events', "post", id)
                  => /\ events'[3] = Ev("point", id, "post", <<"form">>)
                     /\ CallsFrom(events', 4)
                            = OwedCalls(connections[id].callback["post"], callback_functions,
                                        <<"form">>)]_vars

(***************************************************************************)
(* C11.  callback_add(id, point, f, args) with a name f that is not in the *)
(* callback function table logs a diagnostic and is a no-op: no binding is *)
(* appended and nothing else changes, the set of known connection ids      *)
(* included.                                                               *)
(***************************************************************************)
C11_UnknownFunctionIsNoOp ==
    [][\A id \in Ids, p \in Points, f \in FuncNames :
           /\ events' # <<>>
           /\ events'[1] = Ev("api", id, "callback_add", <<p, f>>)
           /\ f \notin DOMAIN callback_functions
           => /\ \E k \in At(events', "log") : events'[k].x = "unknown callback function"
              /\ connections' = connections
              /\ detached' = detached /\ timeouts' = timeouts
              /\ callback_functions' = callback_functions
              /\ data' = data /\ data_callbacks' = data_callbacks /\ data_ln' = data_ln
              /\ dom' = dom]_vars

(***************************************************************************)
(* C12.  For every key k other than "ln" and every sequence of             *)
(* listen(k, fn) calls with distinct functions f1..fn, a later             *)
(* data.set(k, v) stores v and synchronously calls every one of f1..fn     *)
(* once with v, in the order they were registered: listen(k, fn) of a      *)
(* function that is not a listener of k appends it to the listeners of k,  *)
(* and data.set(k, v) stores v and calls the listeners of k, each with v,  *)
(* in their order.                                                         *)
(***************************************************************************)
\* The listeners of a key, in a listener table.
ListenersOf(table, key) == IF key \in DOMAIN table THEN table[key] ELSE <<>>

C12_SetNotifiesEveryListenerInOrder ==
    [][\A k \in DataKeys :
           /\ \A fn \in Listeners :
                  /\ IsCall(events', "data.listen", k)
                  /\ events'[1].args = <<fn>>
                  /\ indexOf(ListenersOf(data_callbacks, k), fn) = 0
                  => ListenersOf(data_callbacks', k)
                         = Append(ListenersOf(data_callbacks, k), fn)
           /\ IsCall(events', "data.set", k)
                  => /\ k \in DOMAIN data'
                     /\ <<data'[k]>> = events'[1].args
                     /\ Tail(events') =
                            [i \in 1..Len(ListenersOf(data_callbacks, k)) |->
                                Ev("listener", k, ListenersOf(data_callbacks, k)[i],
                                   events'[1].args)]]_vars

(***************************************************************************)
(* C13.  For every key k and listener fn registered for k,                 *)
(* data.unlisten(k, fn) removes exactly one entry equal to fn from the     *)
(* listener sequence of k and leaves every other listener of k registered  *)
(* in unchanged relative order; unlisten of an unregistered fn or of an    *)
(* unknown key changes nothing.                                            *)
(***************************************************************************)
\* A sequence without its element at position i.
WithoutAt(list, i) == SubSeq(list, 1, i - 1) \o SubSeq(list, i + 1, Len(list))

C13_UnlistenRemovesOneEntry ==
    [][\A k \in DataKeys, fn \in Listeners :
           IsCall(events', "data.unlisten", k) /\ events'[1].args = <<fn>>
               => /\ ListenersOf(data_callbacks', k) =
                         IF indexOf(ListenersOf(data_callbacks, k), fn) = 0
                         THEN ListenersOf(data_callbacks, k)
                         ELSE WithoutAt(ListenersOf(data_callbacks, k),
                                        indexOf(ListenersOf(data_callbacks, k), fn))
                  /\ data' = data /\ data_ln' = data_ln]_vars

(***************************************************************************)
(* C14.  Data store round trip: for every key k other than "ln" and every  *)
(* value v, data.set(k, v) followed by data.get(k) returns v; for every    *)
(* key a and every string s, data.set("ln", {a: s}) followed by data.ln(a) *)
(* returns s; data.ln(b) for a key b with no localization entry returns b  *)
(* itself; non-string values under "ln" are never stored.                  *)
(***************************************************************************)
C14_DataStoreRoundTrip ==
    /\ [](\A b \in LnKeys : b \notin DOMAIN data_ln => ln(State, b) = b)
    /\ [](\A a \in DOMAIN data_ln : a \in LnKeys /\ data_ln[a] \in {"x", ""})
    /\ [][\A k \in DataKeys :
               IsCall(events', "data.set", k)
                   => <<data_get([data |-> data'], k)>> = events'[1].args]_vars
    /\ [][IsCall(events', "data.set", "ln") =>
               LET members == events'[1].args[1].obj
               IN \A a \in LnKeys :
                      IF a \in DOMAIN members /\ members[a].isstr
                      THEN ln([data_ln |-> data_ln'], a) = members[a].str
                      ELSE /\ a \in DOMAIN data_ln' <=> a \in DOMAIN data_ln
                           /\ a \in DOMAIN data_ln => data_ln'[a] = data_ln[a]]_vars

(***************************************************************************)
(* C15.  Applying an output instruction whose content equals the target    *)
(* element's current content leaves the element unreplaced and fires no    *)
(* 'inner' callback; the 'inner' callback point of the connection that     *)
(* received the reply is fired exactly when, and only when, the element    *)
(* was actually swapped.                                                   *)
(***************************************************************************)
\* The handler was a reply or a retry that applied no instruction that writes
\* the document but output.
OnlyOutputs(evs) ==
    /\ IsReply(evs) \/ (evs # <<>> /\ evs[1].t = "timer" /\ evs[1].x = "retry")
    /\ \A k \in At(evs, "inst") : evs[k].x \in {"output", "call"}

\* The swaps of an element, and the content the last of them put in.
SwapsOf(evs, target) == {k \in At(evs, "swap") : evs[k].x = target}
LastSwap(evs, target) ==
    evs[CHOOSE k \in SwapsOf(evs, target) : \A j \in SwapsOf(evs, target) : j <= k].args[1]

C15_InnerFiresExactlyOnSwap ==
    [][/\ \A k \in At(events', "replace") :
              Len(events'[k].args) = 2 /\ events'[k].args[1] = events'[k].args[2]
                  => ~(k < Len(events') /\ events'[k + 1].t \in {"swap", "point"})
       /\ \A k \in At(events', "swap") :
              /\ events'[k - 1].t = "replace" /\ events'[k - 1].x = events'[k].x
              /\ k < Len(events')
              /\ events'[k + 1] = Fired(events'[1].id, "inner")
       /\ \A k \in At(events', "point") :
              events'[k].x = "inner" => events'[k - 1].t = "swap"
       /\ OnlyOutputs(events') =>
              /\ DOMAIN dom' = DOMAIN dom
              /\ \A target \in DOMAIN dom :
                     dom'[target] =
                         IF SwapsOf(events', target) = {} THEN dom[target]
                         ELSE [dom[target] EXCEPT !.innerHTML = LastSwap(events', target)]]_vars

\* One reply has swapped the element and then applied an output with the
\* content the element has by then.
C15_Witness ==
    /\ IsReply(events)
    /\ \E j \in At(events, "swap"), k \in At(events, "replace") :
           /\ j < k
           /\ Len(events[k].args) = 2
           /\ events[k].args[1] = events[k].args[2]

(***************************************************************************)
(* C16.  An output instruction whose target element is absent is retried   *)
(* exactly once after a fixed delay: if the element exists at retry time   *)
(* (created by a later step) the content is applied then; if it is still   *)
(* absent exactly one alert is raised; in no case is a second retry        *)
(* scheduled.                                                              *)
(***************************************************************************)
Retries(pending) == {t \in pending : t.kind = "retry"}

\* The handler was the retry of an output.
IsRetry(evs) == evs # <<>> /\ evs[1].t = "timer" /\ evs[1].x = "retry"

C16_AbsentTargetRetriedOnce ==
    [][/\ IsReply(events') =>
              /\ timeouts \subseteq timeouts'
              /\ timeouts' \ timeouts \subseteq Retries(timeouts')
              /\ Cardinality(timeouts' \ timeouts) =
                     Cardinality({k \in At(events', "output") : events'[k].x \notin DOMAIN dom})
              /\ \A k \in At(events', "output") :
                     events'[k].x \notin DOMAIN dom
                         => \E t \in timeouts' \ timeouts :
                                /\ t.id = events'[1].id
                                /\ t.target = events'[k].x
                                /\ <<t.content>> = events'[k].args
       /\ IsRetry(events') =>
              \E t \in Retries(timeouts) :
                  /\ timeouts' = timeouts \ {t}
                  /\ IF t.target \in DOMAIN dom
                     THEN /\ dom'[t.target].innerHTML = serialise(t.content)
                          /\ At(events', "alert") = {}
                     ELSE /\ Cardinality(At(events', "alert")) = 1
                          /\ dom' = dom]_vars

\* A retry has found the element that was missing when the reply came, and
\* swapped the content in.
C16_Witness ==
    /\ IsRetry(events)
    /\ At(events, "swap") # {}

(***************************************************************************)
(* C17.  An attribute or close instruction whose target element does not   *)
(* exist is skipped without alert and without error: the DOM is unchanged, *)
(* and every later instruction of the same batch and every buffered        *)
(* tailcall is still applied.                                              *)
(***************************************************************************)
\* The instruction patches an element the document does not have.
MissingTarget(inst, document) ==
    inst.type \in {"attribute", "close"} /\ inst.target \notin DOMAIN document

C17_MissingTargetIsSkipped ==
    [][\A k \in At(events', "parse") :
           LET batch == JSON_parse(events'[k].args).array
           IN /\ events'[k].x = "ok"
              /\ \E i \in 1..Len(batch) : MissingTarget(batch[i], dom)
              => /\ ~Threw(events')
                 /\ At(events', "alert") = {}
                 /\ Cardinality(At(events', "inst")) = Len(batch)
                 /\ Tailcalls(events') = CallInstructions(events')
                 /\ DOMAIN dom' = DOMAIN dom
                 /\ (\A i \in 1..Len(batch) : MissingTarget(batch[i], dom)) => dom' = dom]_vars

(***************************************************************************)
(* C18.  When a request on connection id completes with a non-success      *)
(* status: if the status is in the fixed status table (403) the mapped     *)
(* callback point ('forbidden') of id is fired and the body is not         *)
(* decoded; for every other non-success status no callback point is fired, *)
(* the body is not decoded, and no state changes; only a success status    *)
(* fires 'reply' and decodes the body.                                     *)
(***************************************************************************)
\* The handler was the completion of a request.
IsCompletion(evs) == evs # <<>> /\ evs[1].t = "complete"

\* The positions where a body is decoded or an instruction applied.
Decoding(evs) ==
    At(evs, "content") \cup At(evs, "parse") \cup At(evs, "inst") \cup At(evs, "tailcall")

\* The registry but for the requests outstanding.
WithoutRequests(registry) == [id \in DOMAIN registry |-> [registry[id] EXCEPT !.http = Idle]]

C18_OnlySuccessDecodes ==
    [][IsCompletion(events') =>
           CASE events'[1].x = "200" ->
                    /\ Len(events') >= 3
                    /\ events'[2] = Fired(events'[1].id, "reply")
                    /\ events'[3].t = "content"
             [] events'[1].x = "403" ->
                    /\ Len(events') >= 2
                    /\ events'[2] = Fired(events'[1].id, "forbidden")
                    /\ Decoding(events') = {}
                    /\ \A k \in At(events', "point") : k = 2
             [] OTHER ->
                    /\ Len(events') = 1
                    /\ WithoutRequests(connections') = WithoutRequests(connections)
                    /\ timeouts' = timeouts
                    /\ callback_functions' = callback_functions
                    /\ data' = data /\ data_callbacks' = data_callbacks /\ data_ln' = data_ln
                    /\ dom' = dom]_vars

\* A request has completed with status 403 and 'forbidden' was fired.
C18_Witness ==
    /\ IsCompletion(events)
    /\ events[1].x = "403"
    /\ Len(events) = 2
    /\ events[2] = Fired(events[1].id, "forbidden")

(***************************************************************************)
(* C19.  In every reachable state the set of known connection ids contains *)
(* only ids that were passed to get, post, or interval with a truthy value *)
(* (directly or via an instruction) and not since unset: no other          *)
(* operation (update, delay, stop, abort, url, callback_add/remove/clear,  *)
(* firing a callback point) ever creates a connection, and only unset      *)
(* removes one.  So a handler that adds an id to the registry has entered  *)
(* get or post on it, or interval with a truthy value, and a handler that  *)
(* removes one has entered unset on it.                                    *)
(***************************************************************************)
\* The handler entered the operation on the id.
Entered(evs, op, id) == \E k \in At(evs, "op") : evs[k] = Ev("op", id, op, <<>>)

C19_OnlyGetPostIntervalCreate ==
    [][/\ \A id \in DOMAIN connections' \ DOMAIN connections :
              \/ Entered(events', "get", id)
              \/ Entered(events', "post", id)
              \/ Entered(events', "interval", id) /\ connections'[id].interval # 0
       /\ \A id \in DOMAIN connections \ DOMAIN connections' :
              Entered(events', "unset", id)]_vars

(***************************************************************************)
(* C20.  As claimed: for every connection in a polling cycle, the next     *)
(* poll is scheduled only after the poll request has completed: in no      *)
(* reachable state does a connection have both a pending poll timer set by *)
(* an update and that same update's request still outstanding.             *)
(***************************************************************************)
\* The handler's last send on the id was made by update (on its own or for get).
SentByUpdate(evs, id) ==
    \E k \in At(evs, "send") :
        /\ evs[k].id = id
        /\ evs[k].x = "GET"
        /\ \A j \in At(evs, "send") : evs[j].id = id => j <= k

C20_NoPollPendingWhileRequestOutstanding ==
    \A id \in DOMAIN connections :
        ~(/\ connections[id].http.busy
          /\ SentByUpdate(events, id)
          /\ \E t \in Polls(timeouts, id) : t.h = connections[id].timer)

(***************************************************************************)
(* C20, amended.  For every connection in a polling cycle, the next poll   *)
(* is scheduled when the poll request is sent, not when it completes:      *)
(* when update(id) has sent its request on a connection with an interval,  *)
(* the connection has exactly one pending poll timer, set by that update,  *)
(* while the request is still outstanding; the completion of a request     *)
(* schedules no poll by itself (only an instruction of its reply can).     *)
(***************************************************************************)
C20_PollScheduledWhenRequestIsSent ==
    [][/\ \A id \in DOMAIN connections' :
              /\ SentByUpdate(events', id)
              /\ ~Threw(events')
              /\ connections'[id].interval # 0
              /\ \A k \in At(events', "op") :
                     events'[k].id = id => events'[k].x \in {"get", "update", "delay"}
              => /\ connections'[id].http.busy
                 /\ Cardinality(Polls(timeouts', id)) = 1
                 /\ \A t \in Polls(timeouts', id) :
                        t.h = connections'[id].timer /\ t \notin timeouts
       /\ IsCompletion(events') /\ At(events', "inst") = {} => timeouts' = timeouts]_vars

\* update has sent a request and set the poll that follows it.
C20_Witness ==
    \E id \in DOMAIN connections :
        /\ IsUpdate(events, id)
        /\ connections[id].http.busy
        /\ Polls(timeouts, id) # {}

(***************************************************************************)
(* C21.  In every reachable state, after any sequence of get, post,        *)
(* update, stop, abort and unset calls and timer firings, each connection  *)
(* id has at most one request in flight: a new get, post or update on an   *)
(* id supersedes the prior outstanding request of that id, so at most one  *)
(* reply per id can still arrive.                                          *)
(***************************************************************************)
\* The requests outstanding whose completion is handled under the id: the one
\* of the connection in the registry, and those of deleted connections.
InFlight(id) ==
    (IF id \in DOMAIN connections /\ connections[id].http.busy THEN 1 ELSE 0)
        + Cardinality({i \in DOMAIN detached : detached[i].id = id})

C21_OneRequestInFlightPerId == \A id \in Ids : InFlight(id) <= 1

(***************************************************************************)
(* C22.  In every reachable state, after any interleaving of get, update,  *)
(* interval, delay, stop and unset calls, reply dispatches and timer       *)
(* firings, each connection id has at most one pending poll timer:         *)
(* scheduling a re-poll always clears the previously pending timer of that *)
(* connection first (the pending one is the connection's timer), and unset *)
(* leaves none behind (an id without a connection has none).               *)
(***************************************************************************)
C22_OnePollTimerPerId ==
    \A id \in Ids :
        /\ Cardinality(Polls(timeouts, id)) <= 1
        /\ IF id \in DOMAIN connections
           THEN \A t \in Polls(timeouts, id) : t.h = connections[id].timer
           ELSE Polls(timeouts, id) = {}

\* A re-poll was scheduled while another was pending: delay cleared it.
C22_Witness ==
    \E id \in Ids :
        /\ \E k \in At(events, "cleared") :
               /\ events[k] = Ev("cleared", id, "update", <<>>)
               /\ events[k - 1] = Ev("op", id, "delay", <<>>)
        /\ Cardinality(Polls(timeouts, id)) = 1

(***************************************************************************)
(* C23.  Polling liveness and independence from replies: for a connection  *)
(* that has a url and a truthy interval, as long as no stop, unset, or     *)
(* interval-clear occurs, every update(id) is eventually followed by       *)
(* another update(id) (timers fire fairly), regardless of whether the      *)
(* previous request succeeded, failed with any status, was aborted, or     *)
(* returned an unparseable body.  This holds as long as, also, no call of  *)
(* delay(id) occurs: the poll that an update has left pending leads to a   *)
(* handler that has run update(id) and has that poll pending no more, or   *)
(* to a stop, an unset or an interval-clear of the id, or to a delay(id)   *)
(* of the application that has cleared that poll.  Without that exception  *)
(* it does not hold: delay (ufo.js:106-114) clears the pending poll and    *)
(* schedules a new one, and an application that keeps calling it before    *)
(* the poll is due keeps update(id) from ever running again.               *)
(***************************************************************************)
\* The poll with handle h is pending for id, which has a url and an interval.
Polling(id, h) ==
    /\ \E t \in Polls(timeouts, id) : t.h = h
    /\ id \in DOMAIN connections
    /\ Truthy(connections[id].url)
    /\ connections[id].interval # 0

\* The last handler ran update(id), and the poll with handle h is not pending.
Repolled(id, h) ==
    /\ Entered(events, "update", id)
    /\ ~\E t \in Polls(timeouts, id) : t.h = h

\* The last handler stopped or unset the id, or cleared its interval.
Disrupted(id) ==
    \/ Entered(events, "stop", id)
    \/ Entered(events, "unset", id)
    \/ /\ Entered(events, "interval", id)
       /\ id \in DOMAIN connections => connections[id].interval = 0

\* The last handler is a call of delay(id) of the application, and the poll
\* with handle h is not pending.
Postponed(id, h) ==
    /\ events # <<>>
    /\ events[1] = Ev("api", id, "delay", <<>>)
    /\ ~\E t \in Polls(timeouts, id) : t.h = h

C23_EveryUpdateIsFollowedByAnother ==
    \A id \in Ids : \A h \in Handles :
        Polling(id, h) ~> (Repolled(id, h) \/ Disrupted(id) \/ Postponed(id, h))

\* The statement without the exception of delay, in its weakest reading: a
\* pending poll leads to a handler that has run update(id), or to a stop, an
\* unset or an interval-clear.
C23_Original ==
    \A id \in Ids : \A h \in Handles :
        Polling(id, h) ~> (Entered(events, "update", id) \/ Disrupted(id))

\* A poll has fired on a connection that polls, has sent the request and has
\* left the next poll pending.
C23_Witness ==
    \E id \in Ids :
        /\ events # <<>>
        /\ events[1] = Ev("timer", id, "update", <<>>)
        /\ \E k \in At(events, "send") : events[k].id = id
        /\ \E h \in Handles : Polling(id, h)

====
